---------------------------- MODULE Spec2Model ----------------------------
(***************************************************************************)
(* A model of the pupper PUP (PlayStation Update Package) codec:           *)
(* Metadata, the segment and digest tables, the Header and the Pup         *)
(* (de)serialisers of src/src/lib.                                         *)
(*                                                                         *)
(* Representation.  A byte is a number in 0..255 and a buffer is a         *)
(* sequence of bytes.  A u64 is held as four 16-bit limbs, most            *)
(* significant first, and a u32 as two, because the model checker's        *)
(* integers are narrower than the program's; all arithmetic the program    *)
(* does on values read from a buffer is done on limbs, at 64 bits.  A      *)
(* usize that is the length of something in memory is a natural number.    *)
(* usize is taken to be 64 bits wide.                                      *)
(***************************************************************************)
EXTENDS Integers, Sequences, FiniteSets, TLC

VARIABLES pup, buf, res, fresh, edits, call

vars == <<pup, buf, res, fresh, edits, call>>

-----------------------------------------------------------------------------
(* Bounds of the model. *)

MaxSegs == 2

MaxDataLen == 2

MaxEdits == 2

(* The hand edits of a package file before a command-line mutator runs. *)
MaxCliEdits == 1

-----------------------------------------------------------------------------
(* Sizes and constants of the format. *)

Digest_SIZE == 20

Metadata_SIZE == 48

PKG_VERSION == 1

seg_Entry_SIZE == 32

digest_Entry_SIZE == 32

LimbBase == 256 * 256

Zeros(n) == [i \in 1..n |-> 0]

Take(s, n) == SubSeq(s, 1, n)

Drop(s, n) == SubSeq(s, n + 1, Len(s))

(* s[a..b) with 0-based offsets, as a Rust range. *)
Slice(s, a, b) == SubSeq(s, a + 1, b)

-----------------------------------------------------------------------------
(* Fixed-width integers. *)

(* usize -> u64 of a value that is a length in memory. *)
U64FromNat(n) == <<0, 0, n \div LimbBase, n % LimbBase>>

(* u64 -> usize of a value known to be a length in memory. *)
U64ToNat(v) == v[3] * LimbBase + v[4]

U64Le(a, b) ==
    \/ a = b
    \/ \E i \in 1..4 : a[i] < b[i] /\ \A j \in 1..(i - 1) : a[j] = b[j]

u64_from_be_bytes(b) ==
    [i \in 1..4 |-> b[2 * i - 1] * 256 + b[2 * i]]

u64_to_be_bytes(v) ==
    [i \in 1..8 |-> IF i % 2 = 1 THEN v[(i + 1) \div 2] \div 256
                                 ELSE v[i \div 2] % 256]

u32_from_be_bytes(b) ==
    [i \in 1..2 |-> b[2 * i - 1] * 256 + b[2 * i]]

u32_to_be_bytes(v) ==
    [i \in 1..4 |-> IF i % 2 = 1 THEN v[(i + 1) \div 2] \div 256
                                 ELSE v[i \div 2] % 256]

(* a + b on usize: the sum modulo 2^64 and whether it overflowed. *)
usize_add(a, b) ==
    LET s4 == a[4] + b[4]
        s3 == a[3] + b[3] + (s4 \div LimbBase)
        s2 == a[2] + b[2] + (s3 \div LimbBase)
        s1 == a[1] + b[1] + (s2 \div LimbBase)
    IN  [val |-> <<s1 % LimbBase, s2 % LimbBase, s3 % LimbBase, s4 % LimbBase>>,
         overflow |-> s1 \div LimbBase > 0]

(* a * k on usize, k a small constant: the product modulo 2^64 and whether
   it overflowed. *)
usize_mul(a, k) ==
    LET p4 == a[4] * k
        p3 == a[3] * k + (p4 \div LimbBase)
        p2 == a[2] * k + (p3 \div LimbBase)
        p1 == a[1] * k + (p2 \div LimbBase)
    IN  [val |-> <<p1 % LimbBase, p2 % LimbBase, p3 % LimbBase, p4 % LimbBase>>,
         overflow |-> p1 \div LimbBase > 0]

(* slice.get(a..b): the range is in bounds iff a <= b <= len. *)
RangeInBounds(a, b, len) == U64Le(a, b) /\ U64Le(b, U64FromNat(len))

-----------------------------------------------------------------------------
(* Results and errors. *)

Ok(v) == [tag |-> "Ok", val |-> v]

Err(e) == [tag |-> "Err", val |-> e]

(* The program aborted (a panic). *)
Panic == [tag |-> "Panic", val |-> <<>>]

NoResult == [tag |-> "None", val |-> <<>>]

(* No function of the header module, and no command, has been run on its
   own yet. *)
NoCall == [op |-> "none", arg |-> <<>>, out |-> NoResult, wrote |-> FALSE]

Undersized == [kind |-> "Undersized", arg |-> <<>>]

InvalidMagic(magic) == [kind |-> "InvalidMagic", arg |-> magic]

UnsupportedPackageVersion(v) == [kind |-> "UnsupportedPackageVersion", arg |-> v]

InvalidSignatureKind(v) == [kind |-> "InvalidSignatureKind", arg |-> v]

MissingDigest(i) == [kind |-> "MissingDigest", arg |-> i]

MissingData(i) == [kind |-> "MissingData", arg |-> i]

-----------------------------------------------------------------------------
(* lib.rs: Magic, SignatureKind. *)

Magic_default == <<83, 67, 69, 85, 70, 0, 0, 0>>

SignatureKind == {"HmacSha1", "HmacSha256"}

SignatureKind_try_from(value) ==
    CASE value = <<0, 0>> -> Ok("HmacSha1")
      [] value = <<0, 2>> -> Ok("HmacSha256")
      [] OTHER -> Err(InvalidSignatureKind(value))

(* From<SignatureKind> for u32 numbering the kinds 0 and 1. *)
SignatureKind_to_u32_sequential(sig_kind) ==
    CASE sig_kind = "HmacSha1" -> <<0, 0>>
      [] sig_kind = "HmacSha256" -> <<0, 1>>

SignatureKind_to_u32(sig_kind) ==
    CASE sig_kind = "HmacSha1" -> <<0, 0>>
      [] sig_kind = "HmacSha256" -> <<0, 2>>

Digest_default == Zeros(Digest_SIZE)

Segment_new(id, sig_kind, data) ==
    [id |-> id, sig_kind |-> sig_kind, data |-> data, digest |-> Digest_default]

Pup_new(segments, image_version) ==
    [segments |-> segments, image_version |-> image_version]

-----------------------------------------------------------------------------
(* Iterator and Vec helpers. *)

RECURSIVE Concat(_)
Concat(seqs) ==
    IF seqs = <<>> THEN <<>> ELSE Head(seqs) \o Concat(Tail(seqs))

RECURSIVE SumLens(_)
SumLens(segments) ==
    IF segments = <<>> THEN 0
    ELSE Len(Head(segments).data) + SumLens(Tail(segments))

IsOk(r) == r.tag = "Ok"

(* Iterator::flat_map over Results: a Result iterates over its Ok value, so
   an Err yields nothing. *)
flat_map_results(rs) ==
    LET oks == SelectSeq(rs, IsOk)
    IN  [i \in 1..Len(oks) |-> oks[i].val]

(* slice::chunks_exact: the whole chunks only. *)
chunks_exact(data, size) ==
    [i \in 1..(Len(data) \div size) |-> Slice(data, (i - 1) * size, i * size)]

(* Vec::resize_with(n, Default::default): truncates or pads with zeros. *)
resize_with(data, n) ==
    IF n <= Len(data) THEN Take(data, n) ELSE data \o Zeros(n - Len(data))

(* data[start..end].copy_from_slice(src) *)
copy_from_slice(data, start, end, src) ==
    [j \in 1..Len(data) |-> IF start < j /\ j <= end THEN src[j - start] ELSE data[j]]

-----------------------------------------------------------------------------
(* header/meta.rs *)

(* Metadata::try_from with the two checks in the other order. *)
Metadata_try_from_version_first(data) ==
    LET magic == Slice(data, 0, 8)
        pkg_version == u64_from_be_bytes(Slice(data, 8, 16))
    IN  IF pkg_version # U64FromNat(PKG_VERSION)
        THEN Err(UnsupportedPackageVersion(pkg_version))
        ELSE IF magic # Magic_default THEN Err(InvalidMagic(magic))
        ELSE Ok([img_version |-> u64_from_be_bytes(Slice(data, 16, 24)),
                 seg_count   |-> u64_from_be_bytes(Slice(data, 24, 32)),
                 header_size |-> u64_from_be_bytes(Slice(data, 32, 40)),
                 data_size   |-> u64_from_be_bytes(Slice(data, 40, 48))])

(* Metadata::try_from comparing only the low 32 bits of the package version. *)
Metadata_try_from_version_u32(data) ==
    LET magic == Slice(data, 0, 8)
        pkg_version == u64_from_be_bytes(Slice(data, 8, 16))
    IN  IF magic # Magic_default THEN Err(InvalidMagic(magic))
        ELSE IF <<pkg_version[3], pkg_version[4]>> # <<0, PKG_VERSION>>
             THEN Err(UnsupportedPackageVersion(pkg_version))
        ELSE Ok([img_version |-> u64_from_be_bytes(Slice(data, 16, 24)),
                 seg_count   |-> u64_from_be_bytes(Slice(data, 24, 32)),
                 header_size |-> u64_from_be_bytes(Slice(data, 32, 40)),
                 data_size   |-> u64_from_be_bytes(Slice(data, 40, 48))])

Metadata_try_from(data) ==
    LET magic == Slice(data, 0, 8)
        pkg_version == u64_from_be_bytes(Slice(data, 8, 16))
    IN  IF magic # Magic_default THEN Err(InvalidMagic(magic))
        ELSE IF pkg_version # U64FromNat(PKG_VERSION)
             THEN Err(UnsupportedPackageVersion(pkg_version))
        ELSE Ok([img_version |-> u64_from_be_bytes(Slice(data, 16, 24)),
                 seg_count   |-> u64_from_be_bytes(Slice(data, 24, 32)),
                 header_size |-> u64_from_be_bytes(Slice(data, 32, 40)),
                 data_size   |-> u64_from_be_bytes(Slice(data, 40, 48))])

Metadata_header_size(n) ==
    LET unrounded == Metadata_SIZE + n * seg_Entry_SIZE
                       + n * digest_Entry_SIZE + Digest_SIZE
    IN  unrounded + (unrounded % 16)

Metadata_from_pup(p) ==
    [img_version |-> p.image_version,
     seg_count   |-> U64FromNat(Len(p.segments)),
     header_size |-> U64FromNat(Metadata_header_size(Len(p.segments))),
     data_size   |-> U64FromNat(SumLens(p.segments))]

Metadata_to_bytes(meta) ==
    Magic_default
      \o u64_to_be_bytes(U64FromNat(PKG_VERSION))
      \o u64_to_be_bytes(meta.img_version)
      \o u64_to_be_bytes(meta.seg_count)
      \o u64_to_be_bytes(meta.header_size)
      \o u64_to_be_bytes(meta.data_size)

-----------------------------------------------------------------------------
(* lib.rs: Pup::header_size *)

(* Pup::header_size without the final adjustment, so that it disagrees with
   the header size the Metadata stores. *)
Pup_header_size_unadjusted(p) ==
    LET n == Len(p.segments)
    IN  Metadata_SIZE + n * seg_Entry_SIZE + n * digest_Entry_SIZE + Digest_SIZE

Pup_header_size(p) ==
    LET n == Len(p.segments)
        sum == Metadata_SIZE + n * seg_Entry_SIZE
                 + n * digest_Entry_SIZE + Digest_SIZE
    IN  sum + (sum % 16)

-----------------------------------------------------------------------------
(* header/seg.rs *)

(* The walk of the segments with a running offset that is never advanced. *)
RECURSIVE seg_entries_fixed_offset(_, _)
seg_entries_fixed_offset(segments, offset) ==
    IF segments = <<>> THEN <<>>
    ELSE LET seg == Head(segments)
             entry == [id |-> seg.id,
                       offset |-> U64FromNat(offset),
                       size |-> U64FromNat(Len(seg.data)),
                       sig_kind |-> seg.sig_kind]
         IN  <<entry>> \o seg_entries_fixed_offset(Tail(segments), offset)

RECURSIVE seg_entries(_, _)
seg_entries(segments, offset) ==
    IF segments = <<>> THEN <<>>
    ELSE LET seg == Head(segments)
             entry == [id |-> seg.id,
                       offset |-> U64FromNat(offset),
                       size |-> U64FromNat(Len(seg.data)),
                       sig_kind |-> seg.sig_kind]
         IN  <<entry>> \o seg_entries(Tail(segments), offset + Len(seg.data))

seg_Table_from_pup(p) == seg_entries(p.segments, Pup_header_size(p))

seg_Entry_try_from(data) ==
    LET sig_kind == SignatureKind_try_from(u32_from_be_bytes(Slice(data, 24, 28)))
    IN  IF ~IsOk(sig_kind) THEN sig_kind
        ELSE Ok([id |-> u64_from_be_bytes(Slice(data, 0, 8)),
                 offset |-> u64_from_be_bytes(Slice(data, 8, 16)),
                 size |-> u64_from_be_bytes(Slice(data, 16, 24)),
                 sig_kind |-> sig_kind.val])

seg_Entry_to_bytes(entry) ==
    u64_to_be_bytes(entry.id)
      \o u64_to_be_bytes(entry.offset)
      \o u64_to_be_bytes(entry.size)
      \o u32_to_be_bytes(SignatureKind_to_u32(entry.sig_kind))
      \o Zeros(4)

-----------------------------------------------------------------------------
(* header/digest.rs *)

digest_Table_from_pup(p) == <<>>

digest_Entry_try_from(data) ==
    Ok([seg_index |-> u64_from_be_bytes(Slice(data, 0, 8)),
        digest |-> Slice(data, 8, 28)])

digest_Entry_to_bytes(entry) ==
    u64_to_be_bytes(entry.seg_index) \o entry.digest \o Zeros(4)

-----------------------------------------------------------------------------
(* header/table.rs *)

(* The entry types T of a Table<T>: "seg" is seg::Entry, "digest" is
   digest::Entry. *)
Entry_SIZE(T) == IF T = "seg" THEN seg_Entry_SIZE ELSE digest_Entry_SIZE

Entry_try_from(T, data) ==
    IF T = "seg" THEN seg_Entry_try_from(data) ELSE digest_Entry_try_from(data)

Entry_to_bytes(T, entry) ==
    IF T = "seg" THEN seg_Entry_to_bytes(entry) ELSE digest_Entry_to_bytes(entry)

Table_try_from(T, data) ==
    LET chunks == chunks_exact(data, Entry_SIZE(T))
    IN  Ok(flat_map_results([i \in 1..Len(chunks) |-> Entry_try_from(T, chunks[i])]))

Table_to_bytes(T, table) ==
    Concat([i \in 1..Len(table) |-> Entry_to_bytes(T, table[i])])

-----------------------------------------------------------------------------
(* header.rs *)

Header_new(meta, seg_table, digest_table) ==
    [meta |-> meta, seg_table |-> seg_table, digest_table |-> digest_table,
     header_digest |-> Digest_default]

(* overflow_checks: whether the build panics on arithmetic overflow (a debug
   build) or wraps (a release build). *)
Header_try_from(data, overflow_checks) ==
    IF Len(data) < Metadata_SIZE THEN Err(Undersized)
    ELSE
    LET meta == Metadata_try_from(Take(data, Metadata_SIZE))
        data1 == Drop(data, Metadata_SIZE)
        seg_table_size == usize_mul(meta.val.seg_count, seg_Entry_SIZE)
        seg_size == U64ToNat(seg_table_size.val)
        data2 == Drop(data1, seg_size)
        digest_table_size == usize_mul(meta.val.seg_count, digest_Entry_SIZE)
        digest_size == U64ToNat(digest_table_size.val)
        data3 == Drop(data2, digest_size)
    IN  IF ~IsOk(meta) THEN meta
        ELSE IF seg_table_size.overflow /\ overflow_checks THEN Panic
        ELSE IF ~U64Le(seg_table_size.val, U64FromNat(Len(data1))) THEN Err(Undersized)
        ELSE IF digest_table_size.overflow /\ overflow_checks THEN Panic
        ELSE IF ~U64Le(digest_table_size.val, U64FromNat(Len(data2))) THEN Err(Undersized)
        ELSE IF Len(data3) < Digest_SIZE THEN Err(Undersized)
        ELSE Ok([meta |-> meta.val,
                 seg_table |-> Table_try_from("seg", Take(data1, seg_size)).val,
                 digest_table |-> Table_try_from("digest", Take(data2, digest_size)).val,
                 header_digest |-> Take(data3, Digest_SIZE)])

Header_from_pup(p) ==
    Header_new(Metadata_from_pup(p), seg_Table_from_pup(p), digest_Table_from_pup(p))

Header_to_bytes(header) ==
    resize_with(Metadata_to_bytes(header.meta)
                  \o Table_to_bytes("seg", header.seg_table)
                  \o Table_to_bytes("digest", header.digest_table)
                  \o header.header_digest,
                U64ToNat(header.meta.header_size))

-----------------------------------------------------------------------------
(* lib.rs: Pup *)

(* The closure of Pup::try_from taking the digest at the entry's own position
   of the digest table instead of looking its index up. *)
Pup_try_from_segment_by_position(data, header, i, overflow_checks) ==
    LET entry == header.seg_table[i + 1]
        end == usize_add(entry.offset, entry.size)
    IN  IF i + 1 > Len(header.digest_table) THEN Err(MissingDigest(U64FromNat(i)))
        ELSE IF end.overflow /\ overflow_checks THEN Panic
        ELSE IF ~RangeInBounds(entry.offset, end.val, Len(data))
             THEN Err(MissingData(U64FromNat(i)))
        ELSE Ok([id |-> entry.id,
                 sig_kind |-> entry.sig_kind,
                 data |-> Slice(data, U64ToNat(entry.offset), U64ToNat(end.val)),
                 digest |-> header.digest_table[i + 1].digest])

(* The closure of Pup::try_from, for the entry at 0-based position i. *)
Pup_try_from_segment(data, header, i, overflow_checks) ==
    LET entry == header.seg_table[i + 1]
        IsFor(x) == x.seg_index = U64FromNat(i)
        found == SelectSeq(header.digest_table, IsFor)
        end == usize_add(entry.offset, entry.size)
    IN  IF found = <<>> THEN Err(MissingDigest(U64FromNat(i)))
        ELSE IF end.overflow /\ overflow_checks THEN Panic
        ELSE IF ~RangeInBounds(entry.offset, end.val, Len(data))
             THEN Err(MissingData(U64FromNat(i)))
        ELSE Ok([id |-> entry.id,
                 sig_kind |-> entry.sig_kind,
                 data |-> Slice(data, U64ToNat(entry.offset), U64ToNat(end.val)),
                 digest |-> found[1].digest])

Pup_try_from(data, overflow_checks) ==
    LET header == Header_try_from(data, overflow_checks)
        segs == [i \in 1..Len(header.val.seg_table) |->
                    Pup_try_from_segment(data, header.val, i - 1, overflow_checks)]
    IN  IF ~IsOk(header) THEN header
        ELSE IF \E i \in 1..Len(segs) : segs[i] = Panic THEN Panic
        ELSE Ok([segments |-> flat_map_results(segs),
                 image_version |-> header.val.meta.img_version])

RECURSIVE copy_segments(_, _, _, _)
copy_segments(data, seg_table, segments, i) ==
    IF i > Len(seg_table) THEN data
    ELSE LET start == U64ToNat(seg_table[i].offset)
             end == start + U64ToNat(seg_table[i].size)
         IN  copy_segments(copy_from_slice(data, start, end, segments[i].data),
                           seg_table, segments, i + 1)

Pup_to_bytes(p) ==
    LET header == Header_from_pup(p)
        header_size == U64ToNat(header.meta.header_size)
        data_size == U64ToNat(header.meta.data_size)
        data == resize_with(Header_to_bytes(header), header_size + data_size)
    IN  copy_segments(data, header.seg_table, p.segments, 1)

-----------------------------------------------------------------------------
(* The inputs. *)

U64_MAX == <<65535, 65535, 65535, 65535>>

(* The first n bytes of "hello...". *)
Payload(n) == [i \in 1..n |-> CASE i = 1 -> 104 [] i = 2 -> 101 [] OTHER -> 107 + i]

SegmentIds == {U64FromNat(256), U64FromNat(513)}

ImageVersions == {U64FromNat(0), <<0, 0, 43690, 48059>>}

RECURSIVE SeqsUpTo(_, _)
SeqsUpTo(S, n) ==
    IF n = 0 THEN {<<>>}
    ELSE LET shorter == SeqsUpTo(S, n - 1)
         IN  shorter \cup {Append(q, x) : q \in shorter, x \in S}

(* The Packages a caller builds with Segment::new and Pup::new. *)
NewSegments ==
    {Segment_new(id, k, Payload(n)) : id \in SegmentIds, k \in SignatureKind,
                                      n \in 0..MaxDataLen}

Pups == {Pup_new(segs, v) : segs \in SeqsUpTo(NewSegments, MaxSegs), v \in ImageVersions}

(* The Packages whose encodings the hand-built buffers start from: up to
   MaxSegs segments, all empty or all with MaxDataLen bytes of data. *)
BaseSegments ==
    {Segment_new(U64FromNat(256), "HmacSha1", Payload(n)) : n \in {0, MaxDataLen}}

BasePups ==
    {Pup_new([i \in 1..n |-> s], <<0, 0, 43690, 48059>>) : s \in BaseSegments, n \in 0..MaxSegs}

-----------------------------------------------------------------------------
(* The operations. *)

Init ==
    /\ pup \in Pups
    /\ buf = <<>>
    /\ res = NoResult
    /\ fresh = FALSE
    /\ edits = 0
    /\ call = NoCall

(* Vec::<u8>::from(&pup) *)
Serialize ==
    /\ ~fresh
    /\ edits = 0
    /\ res = NoResult
    /\ call.op = "none"
    /\ buf' = Pup_to_bytes(pup)
    /\ fresh' = TRUE
    /\ UNCHANGED <<pup, res, edits, call>>

(* Pup::try_from(buf), in a build with or without overflow checks. *)
Deserialize ==
    /\ res = NoResult
    /\ call.op = "none"
    /\ \E overflow_checks \in BOOLEAN : res' = Pup_try_from(buf, overflow_checks)
    /\ UNCHANGED <<pup, buf, fresh, edits, call>>

(* The places of a buffer that holds the encoding of n segments: the
   boundaries of its header regions. *)
CutPoints(n) ==
    {0, Metadata_SIZE, Metadata_SIZE + n * seg_Entry_SIZE,
     Metadata_SIZE + n * seg_Entry_SIZE + n * digest_Entry_SIZE,
     Metadata_SIZE + n * seg_Entry_SIZE + n * digest_Entry_SIZE + Digest_SIZE}

(* The field values written into a buffer b that holds the encoding of n
   segments: <<offset, bytes>>. *)
FieldWrites(b, n) ==
    {<<0, <<88>>>>}
      \cup {<<8, u64_to_be_bytes(v)>> : v \in {U64FromNat(2), <<0, 1, 0, 1>>}}
      \cup {<<24, u64_to_be_bytes(v)>> :
              v \in {U64FromNat(k) : k \in 0..(MaxSegs + 1)} \cup {<<2048, 0, 0, 0>>}}
      \cup {<<Metadata_SIZE + seg_Entry_SIZE * i + 8, u64_to_be_bytes(v)>> :
              i \in 0..(n - 1), v \in {U64FromNat(Len(b)), U64_MAX}}
      \cup {<<Metadata_SIZE + seg_Entry_SIZE * i + 16, u64_to_be_bytes(v)>> :
              i \in 0..(n - 1), v \in {U64FromNat(Len(b) + 1)}}
      \cup {<<Metadata_SIZE + seg_Entry_SIZE * i + 24, u32_to_be_bytes(v)>> :
              i \in 0..(n - 1), v \in {<<0, 1>>, <<0, 2>>, <<1, 0>>}}
      \cup {<<Metadata_SIZE + seg_Entry_SIZE * n + digest_Entry_SIZE * i,
              u64_to_be_bytes(U64FromNat(k))>> : i \in 0..(n - 1), k \in 0..MaxSegs}
      \cup {<<Metadata_SIZE + seg_Entry_SIZE * n + digest_Entry_SIZE * i + 8, <<209>>>> :
              i \in 0..(n - 1)}

(* The buffer loses its tail: a file cut short. *)
Truncate ==
    /\ fresh \/ edits > 0
    /\ res = NoResult
    /\ call.op = "none"
    /\ edits < MaxEdits
    /\ \E n \in 0..(Len(buf) - 1) :
         /\ \E c \in CutPoints(Len(pup.segments)) : n = c \/ n + 1 = c \/ n + 1 = Len(buf)
         /\ buf' = Take(buf, n)
    /\ fresh' = FALSE
    /\ edits' = edits + 1
    /\ UNCHANGED <<pup, res, call>>

(* Bytes of the buffer are overwritten: a file built or changed by hand. *)
Overwrite ==
    /\ fresh \/ edits > 0
    /\ res = NoResult
    /\ call.op = "none"
    /\ edits < MaxEdits
    /\ \E w \in FieldWrites(buf, Len(pup.segments)) :
         /\ w[1] + Len(w[2]) <= Len(buf)
         /\ buf' = copy_from_slice(buf, w[1], w[1] + Len(w[2]), w[2])
         /\ buf' # buf
    /\ fresh' = FALSE
    /\ edits' = edits + 1
    /\ UNCHANGED <<pup, res, call>>

Next == Serialize \/ Deserialize

InitDecode ==
    /\ pup \in BasePups
    /\ buf = <<>>
    /\ res = NoResult
    /\ fresh = FALSE
    /\ edits = 0
    /\ call = NoCall

NextDecode == Serialize \/ Truncate \/ Overwrite \/ Deserialize

SpecDecode == InitDecode /\ [][NextDecode]_vars

Spec == Init /\ [][Next]_vars

-----------------------------------------------------------------------------
(* The header and table conversions called on their own. *)

(* The length of a header's content before padding. *)
Header_unpadded_len(header) ==
    Metadata_SIZE + seg_Entry_SIZE * Len(header.seg_table)
      + digest_Entry_SIZE * Len(header.digest_table) + Digest_SIZE

(* The Headers handed to Vec::<u8>::from(&header): the Header derived from
   the Package, its pub meta.header_size being any size around the unpadded
   length. *)
HeaderArgs ==
    LET derived == Header_from_pup(pup)
        unpadded == Header_unpadded_len(derived)
    IN  {[derived EXCEPT !.meta.header_size = U64FromNat(n)] :
            n \in {U64ToNat(derived.meta.header_size), 0, Metadata_SIZE,
                   unpadded - 1, unpadded, unpadded + 1}}

(* Vec::<u8>::from(&header) *)
HeaderEncode ==
    /\ res = NoResult
    /\ call.op = "none"
    /\ \E header \in HeaderArgs :
         call' = [op |-> "Header_to_bytes", arg |-> header,
                  out |-> Ok(Header_to_bytes(header)), wrote |-> FALSE]
    /\ UNCHANGED <<pup, buf, res, fresh, edits>>

(* Table::<T>::try_from(data), data being a slice of the encoded buffer that
   starts where the location table starts. *)
TableDecode ==
    /\ fresh
    /\ res = NoResult
    /\ call.op = "none"
    /\ \E T \in {"seg", "digest"}, n \in 0..(Len(buf) - Metadata_SIZE) :
         /\ n % Entry_SIZE(T) \in {0, 1, Entry_SIZE(T) - 1}
         /\ LET data == Slice(buf, Metadata_SIZE, Metadata_SIZE + n)
            IN  call' = [op |-> "Table_try_from", arg |-> [T |-> T, data |-> data],
                         out |-> Table_try_from(T, data), wrote |-> FALSE]
    /\ UNCHANGED <<pup, buf, res, fresh, edits>>

NextParts == Serialize \/ HeaderEncode \/ TableDecode

SpecParts == Init /\ [][NextParts]_vars

-----------------------------------------------------------------------------
(* main.rs, create.rs, seg.rs, seg/insert.rs, seg/remove.rs: the commands.
   A file is [exists, readable, data]: whether there is a file at the path,
   whether its permissions let the command read it, and the bytes it holds.
   A handler yields its result, the package file it leaves behind and
   whether it called the write. *)

(* The element of a one-element set: a value computed once, then named. *)
The(S) == CHOOSE x \in S : TRUE

(* A path with no file. *)
MissingFile == [exists |-> FALSE, readable |-> FALSE, data |-> <<>>]

(* A path with a file. *)
FileAtPath(readable, data) == [exists |-> TRUE, readable |-> readable, data |-> data]

read_file_at_path(file) ==
    IF file.exists /\ file.readable THEN Ok(file.data) ELSE Err("failed to read")

read_pup_at_path(file, overflow_checks) ==
    LET data == read_file_at_path(file)
    IN  IF ~IsOk(data) THEN data
        ELSE LET parsed == Pup_try_from(data.val, overflow_checks)
             IN  IF parsed.tag = "Err" THEN Err("failed to parse PUP") ELSE parsed

(* What the system lets fs::write do: io is [opened, limited, room,
   mode_read].  fs::write opens the file, creating it when there is none and
   truncating it, then writes the data.  The open can fail, and the path is
   left as it was.  A file that was there keeps its permissions, so one that
   could not be read still cannot; a file the open creates gets the default
   mode less the process's mask, and mode_read tells whether that lets it be
   read.  A limited system (a file size limit, a full disk) stores the first
   room bytes of the data and fails the write of the rest. *)
WriteRooms == {0, 50}

WriteOutcomes ==
    {[opened |-> FALSE, limited |-> FALSE, room |-> 0, mode_read |-> TRUE],
     [opened |-> TRUE, limited |-> FALSE, room |-> 0, mode_read |-> TRUE],
     [opened |-> TRUE, limited |-> FALSE, room |-> 0, mode_read |-> FALSE]}
      \cup {[opened |-> TRUE, limited |-> TRUE, room |-> n, mode_read |-> TRUE] :
               n \in WriteRooms}

(* The result of the write and the file it leaves. *)
write_file_at_path(file, data, io) ==
    IF ~io.opened THEN [out |-> Err("failed to write"), file |-> file]
    ELSE LET readable == IF file.exists THEN file.readable ELSE io.mode_read
         IN  IF ~io.limited \/ Len(data) <= io.room
             THEN [out |-> Ok(<<>>), file |-> FileAtPath(readable, data)]
             ELSE [out |-> Err("failed to write"),
                   file |-> FileAtPath(readable, Take(data, io.room))]

write_pup_at_path(file, p, io) == write_file_at_path(file, Pup_to_bytes(p), io)

(* seg.rs, seg/insert.rs and create.rs call three helpers of the crate root
   that no source file defines: read_pup_from_path, write_pup_to_path and
   read_data_from_path.  By the specification a command reads the file and
   decodes it, and encodes the Package and writes it; they are taken to do
   what main.rs's helpers of nearly the same names do. *)
read_pup_from_path(file, overflow_checks) == read_pup_at_path(file, overflow_checks)

write_pup_to_path(p, file, io) == write_pup_at_path(file, p, io)

read_data_from_path(file) == read_file_at_path(file)

(* Pup::new() as create.rs and do_create call it, without arguments: the
   library defines only new(segments, image_version).  By the specification
   direct construction gives an empty segment list. *)
Pup_new_without_arguments == Pup_new(<<>>, U64FromNat(0))

Vec_insert(v, index, x) == Take(v, index) \o <<x>> \o Drop(v, index)

Vec_remove(v, index) == Take(v, index) \o Drop(v, index + 1)

(* The closure of insert::execute: its result and the Package it leaves. *)
insert_closure(p, index, id, seg_file) ==
    LET at == IF index > Len(p.segments) THEN Len(p.segments) ELSE index
        data == read_data_from_path(seg_file)
    IN  IF ~IsOk(data) THEN [out |-> data, pup |-> p]
        ELSE [out |-> Ok(<<>>),
              pup |-> [p EXCEPT !.segments =
                          Vec_insert(@, at, Segment_new(id, "HmacSha1", data.val))]]

(* The closure of remove::execute. *)
remove_closure(p, index) ==
    IF p.segments = <<>> THEN [out |-> Err("PUP has no segments"), pup |-> p]
    ELSE LET at == IF index >= Len(p.segments) THEN Len(p.segments) - 1 ELSE index
         IN  [out |-> Ok(<<>>), pup |-> [p EXCEPT !.segments = Vec_remove(@, at)]]

(* f(pup), f being the closure of insert::execute or of remove::execute with
   the values it captured. *)
call_closure(f, p) ==
    IF f.op = "insert" THEN insert_closure(p, f.index, f.id, f.seg_file)
    ELSE remove_closure(p, f.index)

(* seg.rs: modify_pup_at_path.  p is what the read returned, m what the
   closure returned and w what the write returned. *)
modify_pup_at_path(file, f, overflow_checks, io) ==
    The({IF ~IsOk(p) THEN [out |-> p, file |-> file, wrote |-> FALSE]
         ELSE The({IF ~IsOk(m.out) THEN [out |-> m.out, file |-> file, wrote |-> FALSE]
                   ELSE The({[out |-> w.out, file |-> w.file, wrote |-> TRUE] :
                             w \in {write_pup_to_path(m.pup, file, io)}}) :
                   m \in {call_closure(f, p.val)}}) :
         p \in {read_pup_from_path(file, overflow_checks)}})

(* main.rs: do_insert.  p is what read_pup_at_path returned; out is the
   error the command logs, if any. *)
do_insert(file, seg_file, id, index, overflow_checks, io) ==
    The({IF ~IsOk(p) THEN [out |-> p, file |-> file, wrote |-> FALSE]
         ELSE LET seg == read_file_at_path(seg_file)
                  at == IF index > Len(p.val.segments) THEN Len(p.val.segments)
                                                        ELSE index
              IN  IF ~IsOk(seg) THEN [out |-> seg, file |-> file, wrote |-> FALSE]
                  ELSE The({[out |-> w.out, file |-> w.file, wrote |-> TRUE] :
                            w \in {write_pup_at_path(
                                     file,
                                     [p.val EXCEPT !.segments =
                                        Vec_insert(@, at,
                                                   Segment_new(id, "HmacSha1", seg.val))],
                                     io)}}) :
         p \in {read_pup_at_path(file, overflow_checks)}})

(* create.rs: the --image_version option, [given, valid, val]: absent, a
   number, or a string that does not parse. *)
parse_img_version_option(img_version) ==
    IF ~img_version.given THEN Ok(U64FromNat(0))
    ELSE IF img_version.valid THEN Ok(img_version.val)
    ELSE Err("failed to parse image version")

create_pup(img_version) == [Pup_new_without_arguments EXCEPT !.image_version = img_version]

(* create.rs: execute.  It writes the empty Package without reading the
   file. *)
create_execute(file, img_version, io) ==
    LET v == parse_img_version_option(img_version)
    IN  IF ~IsOk(v) THEN [out |-> v, file |-> file, wrote |-> FALSE]
        ELSE The({[out |-> w.out, file |-> w.file, wrote |-> TRUE] :
                  w \in {write_pup_to_path(create_pup(v.val), file, io)}})

(* main.rs: do_create.  An image version that does not parse aborts it. *)
do_create(file, img_version, io) ==
    LET v == parse_img_version_option(img_version)
    IN  IF ~IsOk(v) THEN [out |-> Panic, file |-> file, wrote |-> FALSE]
        ELSE The({[out |-> w.out, file |-> w.file, wrote |-> TRUE] :
                  w \in {write_pup_at_path(
                           file,
                           [Pup_new_without_arguments EXCEPT !.image_version = v.val],
                           io)}})

(* The arguments of the commands. *)
Indexes == {0, MaxSegs + 1}

SegFiles == {MissingFile, FileAtPath(TRUE, Payload(1))}

(* The package file, which the command can read or not. *)
PackageFile(readable) == FileAtPath(readable, buf)

(* A segment file that cannot be read fails the closure before the index is
   used: one index. *)
InsertClosures ==
    {[op |-> "insert", index |-> i, id |-> U64FromNat(513), seg_file |-> sf] :
        i \in Indexes, sf \in {f \in SegFiles : f.readable}}
      \cup {[op |-> "insert", index |-> 0, id |-> U64FromNat(513), seg_file |-> sf] :
               sf \in {f \in SegFiles : ~f.readable}}

ImageVersionOptions ==
    {[given |-> FALSE, valid |-> TRUE, val |-> U64FromNat(0)],
     [given |-> TRUE, valid |-> TRUE, val |-> <<0, 0, 43690, 48059>>],
     [given |-> TRUE, valid |-> FALSE, val |-> U64FromNat(0)]}

RemoveClosures ==
    {[op |-> "remove", index |-> i, id |-> U64FromNat(0), seg_file |-> sf] :
        i \in Indexes, sf \in {MissingFile}}

(* The write that stores all the data. *)
WholeWrite == [opened |-> TRUE, limited |-> FALSE, room |-> 0, mode_read |-> TRUE]

(* The runs of a mutator with the closures F, g being one of them whose
   mutation succeeds on a Package with segments: on a package file that can
   be read, every closure in both builds with a whole write, and g with each
   outcome of the write, which neither the build nor the closure influences;
   and one run on a file that cannot be read, where none of these matters. *)
MutatorRuns(F, g) ==
    {[readable |-> TRUE, f |-> f, overflow_checks |-> oc, io |-> WholeWrite] :
        f \in F, oc \in BOOLEAN}
      \cup {[readable |-> TRUE, f |-> g, overflow_checks |-> FALSE, io |-> io] :
               io \in WriteOutcomes}
      \cup {[readable |-> FALSE, f |-> g, overflow_checks |-> FALSE, io |-> WholeWrite]}

InsertRuns ==
    MutatorRuns(InsertClosures,
                [op |-> "insert", index |-> 0, id |-> U64FromNat(513),
                 seg_file |-> FileAtPath(TRUE, Payload(1))])

RemoveRuns ==
    MutatorRuns(RemoveClosures,
                [op |-> "remove", index |-> 0, id |-> U64FromNat(0),
                 seg_file |-> MissingFile])

(* The runs of create: every --image_version option with a whole write, and
   a given image version with each outcome of the write. *)
CreateRuns ==
    {[img_version |-> v, io |-> WholeWrite] : v \in ImageVersionOptions}
      \cup {[img_version |-> v, io |-> io] :
               v \in {[given |-> TRUE, valid |-> TRUE, val |-> <<0, 0, 43690, 48059>>]},
               io \in WriteOutcomes}

(* A command runs on the package file buf and ends the run. *)
CliRun(op, file, f, overflow_checks, r) ==
    /\ buf' = r.file.data
    /\ call' = [op |-> op,
                arg |-> [file |-> file, f |-> f, overflow_checks |-> overflow_checks],
                out |-> r.out, wrote |-> r.wrote]
    /\ UNCHANGED <<pup, res, fresh, edits>>

(* seg/insert.rs: execute *)
CliSegInsert ==
    /\ res = NoResult
    /\ call.op = "none"
    /\ \E run \in InsertRuns :
         \E r \in {modify_pup_at_path(PackageFile(run.readable), run.f,
                                       run.overflow_checks, run.io)} :
           CliRun("seg insert", PackageFile(run.readable), run.f, run.overflow_checks, r)

(* seg/remove.rs: execute *)
CliSegRemove ==
    /\ res = NoResult
    /\ call.op = "none"
    /\ \E run \in RemoveRuns :
         \E r \in {modify_pup_at_path(PackageFile(run.readable), run.f,
                                       run.overflow_checks, run.io)} :
           CliRun("seg remove", PackageFile(run.readable), run.f, run.overflow_checks, r)

(* main.rs: the insert subcommand *)
CliInsert ==
    /\ res = NoResult
    /\ call.op = "none"
    /\ \E run \in InsertRuns :
         \E r \in {do_insert(PackageFile(run.readable), run.f.seg_file, run.f.id,
                              run.f.index, run.overflow_checks, run.io)} :
           CliRun("insert", PackageFile(run.readable), run.f, run.overflow_checks, r)

(* create.rs: the create subcommand *)
CliCreate ==
    /\ res = NoResult
    /\ call.op = "none"
    /\ \E run \in CreateRuns :
         \E r \in {create_execute(PackageFile(TRUE), run.img_version, run.io)} :
           CliRun("create", PackageFile(TRUE),
                  [op |-> "create", img_version |-> run.img_version], FALSE, r)

(* main.rs: the create subcommand *)
CliDoCreate ==
    /\ res = NoResult
    /\ call.op = "none"
    /\ \E run \in CreateRuns :
         \E r \in {do_create(PackageFile(TRUE), run.img_version, run.io)} :
           CliRun("do_create", PackageFile(TRUE),
                  [op |-> "create", img_version |-> run.img_version], FALSE, r)

(* The package file is cut or changed by hand, at most MaxCliEdits times,
   before a command runs on it. *)
FileTruncate == edits < MaxCliEdits /\ Truncate

FileOverwrite == edits < MaxCliEdits /\ Overwrite

NextCli ==
    \/ Serialize \/ FileTruncate \/ FileOverwrite
    \/ CliInsert \/ CliSegInsert \/ CliSegRemove
    \/ CliDoCreate \/ CliCreate

SpecCli == InitDecode /\ [][NextCli]_vars

-----------------------------------------------------------------------------
(* What the properties speak of. *)

Decoded == res # NoResult

(* The big-endian u64 stored at a 0-based offset of a buffer. *)
StoredU64(b, off) == u64_from_be_bytes(Slice(b, off, off + 8))

RoundUp16(x) == ((x + 15) \div 16) * 16

(* 0x30 + N*0x20 + N*0x20 + 0x14 *)
UnroundedHeaderSize(n) == 48 + n * 32 + n * 32 + 20

-----------------------------------------------------------------------------
(* C1: round trip.  Decoding the bytes produced by encoding a Package
   succeeds and yields a Package equal to it: the same segments in the same
   order, the same image version, ids, digests and signature kinds. *)
C1_RoundTrip ==
    (fresh /\ Decoded) => res = Ok(pup)

(* C2: for every segment count N the header size derived from a Package is
   0x30 + N*0x20 + N*0x20 + 0x14 rounded up to the next multiple of 16: a
   multiple of 16, at least the unrounded sum and less than 16 above it; the
   Metadata derivation and Pup::header_size yield the same value. *)
C2_HeaderSizeRounded ==
    fresh =>
        LET unrounded == UnroundedHeaderSize(Len(pup.segments))
            header_size == U64ToNat(StoredU64(buf, 32))
        IN  /\ header_size % 16 = 0
            /\ header_size >= unrounded
            /\ header_size - unrounded < 16
            /\ header_size = U64ToNat(Metadata_from_pup(pup).header_size)
            /\ header_size = Pup_header_size(pup)

(* C3: the encoded buffer has length exactly header_size + data_size, where
   data_size is the sum of the segments' payload lengths; the bytes at
   [offset_i, offset_i + size_i) are segment i's payload, for every i; and
   the first header_size bytes are the encoded header. *)
C3_EncodedLayout ==
    fresh =>
        LET header == Header_from_pup(pup)
            header_size == U64ToNat(StoredU64(buf, 32))
            data_size == U64ToNat(StoredU64(buf, 40))
        IN  /\ header_size = U64ToNat(header.meta.header_size)
            /\ data_size = SumLens(pup.segments)
            /\ Len(buf) = header_size + data_size
            /\ Take(buf, header_size) = Header_to_bytes(header)
            /\ Len(header.seg_table) = Len(pup.segments)
            /\ \A i \in 1..Len(pup.segments) :
                 LET offset == U64ToNat(header.seg_table[i].offset)
                     size == U64ToNat(header.seg_table[i].size)
                 IN  /\ size = Len(pup.segments[i].data)
                     /\ offset + size <= Len(buf)
                     /\ Slice(buf, offset, offset + size) = pup.segments[i].data

(* C3's case: a Package of two segments with payloads has been encoded. *)
C3_Witness ==
    /\ fresh
    /\ Len(pup.segments) = 2
    /\ \A i \in 1..2 : Len(pup.segments[i].data) > 0

(* C4: a Package with zero segments encodes to a buffer of exactly
   header_size bytes, header_size being the header of no segments padded to
   16, and that buffer decodes back to a Package with no segments and the
   same image version. *)
C4_EmptyPackage ==
    (fresh /\ pup.segments = <<>>) =>
        /\ Len(buf) = RoundUp16(UnroundedHeaderSize(0))
        /\ Decoded => res = Ok(Pup_new(<<>>, pup.image_version))

-----------------------------------------------------------------------------
(* Hand-built buffers, read field by field. *)

(* "SCEUF\0\0\0" *)
SCEUF == <<83, 67, 69, 85, 70, 0, 0, 0>>

StoredU32(b, off) == u32_from_be_bytes(Slice(b, off, off + 4))

(* The buffer starts with the magic and with package version 1. *)
MetadataValid(b) ==
    /\ Len(b) >= 48
    /\ Take(b, 8) = SCEUF
    /\ Slice(b, 8, 16) = <<0, 0, 0, 0, 0, 0, 0, 1>>

(* The buffer is shorter than 0x30 + seg_count*0x20 + seg_count*0x20 + 0x14,
   seg_count being the u64 it stores at 0x18. *)
TooShortForHeader(b) ==
    LET seg_count == StoredU64(b, 24)
    IN  \/ seg_count[1] # 0 \/ seg_count[2] # 0 \/ seg_count[3] # 0
        \/ Len(b) < 48 + seg_count[4] * 32 + seg_count[4] * 32 + 20

(* The header of a buffer that holds one whole: its seg_count location
   entries (0x20 bytes each, from 0x30) and seg_count digest entries. *)
LocationCount(b) == StoredU64(b, 24)[4]

LocationField(b, i, off) == StoredU64(b, 48 + 32 * i + off)

LocationKind(b, i) == StoredU32(b, 48 + 32 * i + 24)

DigestIndex(b, j) == StoredU64(b, 48 + 32 * LocationCount(b) + 32 * j)

WholeHeader(b) == MetadataValid(b) /\ ~TooShortForHeader(b)

(* The location entries with no digest entry of their index. *)
WithoutDigest(b) ==
    {k \in 0..(LocationCount(b) - 1) :
        \A j \in 0..(LocationCount(b) - 1) : DigestIndex(b, j) # U64FromNat(k)}

(* The location entries whose offset + size is greater than the length of
   the buffer. *)
OutOfBounds(b) ==
    {i \in 0..(LocationCount(b) - 1) :
        LET end == usize_add(LocationField(b, i, 8), LocationField(b, i, 16))
        IN  end.overflow \/ ~U64Le(end.val, U64FromNat(Len(b)))}

(* The location entries whose signature kind is neither 0 nor 2. *)
UnknownKind(b) ==
    {i \in 0..(LocationCount(b) - 1) : LocationKind(b, i) \notin {<<0, 0>>, <<0, 2>>}}

Least(S) == CHOOSE k \in S : \A j \in S : k <= j

-----------------------------------------------------------------------------
(* C5: decoding fails with Undersized whenever the buffer is too short for
   a required header region: any buffer shorter than the metadata (0x30),
   whatever its magic and version, and any buffer with valid metadata whose
   length is less than 0x30 + seg_count*0x20 + seg_count*0x20 + 0x14. *)
C5_Undersized ==
    (Decoded /\ (Len(buf) < 48 \/ (MetadataValid(buf) /\ TooShortForHeader(buf))))
        => res = Err(Undersized)

(* C6: decoding a buffer of at least the metadata size whose first 8 bytes
   are not "SCEUF\0\0\0" fails with InvalidMagic carrying the 8 bytes read,
   also when the package version is bad as well. *)
C6_InvalidMagic ==
    (Decoded /\ Len(buf) >= 48 /\ Take(buf, 8) # SCEUF)
        => res = Err(InvalidMagic(Take(buf, 8)))

(* C6's case: a buffer with a bad magic and a bad package version has been
   decoded. *)
C6_Witness ==
    /\ Decoded
    /\ Len(buf) >= 48
    /\ Take(buf, 8) # SCEUF
    /\ Slice(buf, 8, 16) # <<0, 0, 0, 0, 0, 0, 0, 1>>

(* C7: decoding a buffer with the right magic whose big-endian u64 at
   0x08..0x10 is not 1 fails with UnsupportedPackageVersion carrying that
   value, whatever the other metadata fields hold. *)
C7_UnsupportedPackageVersion ==
    (Decoded /\ Len(buf) >= 48 /\ Take(buf, 8) = SCEUF
       /\ Slice(buf, 8, 16) # <<0, 0, 0, 0, 0, 0, 0, 1>>)
        => /\ res.tag = "Err"
           /\ res.val.kind = "UnsupportedPackageVersion"
           /\ u64_to_be_bytes(res.val.arg) = Slice(buf, 8, 16)

(* C7's case: a buffer with package version 2^32 + 1 and a segment count
   that is not its Package's has been decoded. *)
C7_Witness ==
    /\ Decoded
    /\ Len(buf) >= 48
    /\ Take(buf, 8) = SCEUF
    /\ Slice(buf, 8, 16) = <<0, 0, 0, 1, 0, 0, 0, 1>>
    /\ StoredU64(buf, 24) # U64FromNat(Len(pup.segments))

(* C8: decoding a buffer whose header is well-formed, with N location
   entries, but whose digest table has no entry with seg_index = k, for some
   k < N, fails with MissingDigest(k). *)
C8_MissingDigest ==
    (Decoded /\ WholeHeader(buf) /\ UnknownKind(buf) = {} /\ OutOfBounds(buf) = {}
       /\ WithoutDigest(buf) # {})
        => res = Err(MissingDigest(U64FromNat(Least(WithoutDigest(buf)))))

(* C9: decoding a buffer in which location entry i has offset + size greater
   than the buffer length, and a digest for i exists, fails with
   MissingData(i). *)
C9_MissingData ==
    (Decoded /\ WholeHeader(buf) /\ UnknownKind(buf) = {} /\ WithoutDigest(buf) = {}
       /\ OutOfBounds(buf) # {})
        => res = Err(MissingData(U64FromNat(Least(OutOfBounds(buf)))))

(* C10: if a location entry's u32 signature kind is not a known value (0 or
   2), the whole decode fails with InvalidSignatureKind(code): the entry is
   not skipped and no Package is produced. *)
C10_InvalidSignatureKind ==
    (Decoded /\ WholeHeader(buf) /\ UnknownKind(buf) # {})
        => res = Err(InvalidSignatureKind(LocationKind(buf, Least(UnknownKind(buf)))))

-----------------------------------------------------------------------------
(* C11: decode has no partial success.  Whenever decode returns a Package,
   the Package has exactly seg_count segments, one per location entry in
   table order; a segment that fails makes the whole decode fail instead of
   being left out. *)
C11_NoPartialSuccess ==
    (Decoded /\ res.tag = "Ok")
        => /\ U64FromNat(Len(res.val.segments)) = StoredU64(buf, 24)
           /\ \A i \in 1..Len(res.val.segments) :
                res.val.segments[i].id = LocationField(buf, i - 1, 0)

(* The 20 digest bytes of digest entry j of a buffer. *)
DigestBytes(b, j) ==
    Slice(b, 48 + 32 * LocationCount(b) + 32 * j + 8,
             48 + 32 * LocationCount(b) + 32 * j + 28)

(* The digest entries' indices are a permutation of 0..N-1. *)
DigestsPermuted(b) ==
    \A k \in 0..(LocationCount(b) - 1) :
        Cardinality({j \in 0..(LocationCount(b) - 1) : DigestIndex(b, j) = U64FromNat(k)}) = 1

DigestEntryOf(b, k) ==
    CHOOSE j \in 0..(LocationCount(b) - 1) : DigestIndex(b, j) = U64FromNat(k)

KindOfCode(code) == IF code = <<0, 0>> THEN "HmacSha1" ELSE "HmacSha256"

(* C12: the digest is looked up by the stored seg_index, not by position.
   For a buffer whose digest table is a permutation of entries with
   seg_index 0..N-1, decode succeeds and segment i has the digest of the
   entry whose seg_index is i, the segments being in location-table order. *)
C12_DigestByIndex ==
    (Decoded /\ WholeHeader(buf) /\ UnknownKind(buf) = {} /\ OutOfBounds(buf) = {}
       /\ DigestsPermuted(buf))
        => /\ res.tag = "Ok"
           /\ Len(res.val.segments) = LocationCount(buf)
           /\ res.val.image_version = StoredU64(buf, 16)
           /\ \A i \in 1..LocationCount(buf) :
                LET seg == res.val.segments[i]
                    offset == U64ToNat(LocationField(buf, i - 1, 8))
                    size == U64ToNat(LocationField(buf, i - 1, 16))
                IN  /\ seg.digest = DigestBytes(buf, DigestEntryOf(buf, i - 1))
                    /\ seg.id = LocationField(buf, i - 1, 0)
                    /\ seg.sig_kind = KindOfCode(LocationKind(buf, i - 1))
                    /\ seg.data = Slice(buf, offset, offset + size)

(* C12's case: a buffer of two segments whose digest entries are stored in
   reverse order, with different digests, has been decoded. *)
C12_Witness ==
    /\ Decoded
    /\ WholeHeader(buf) /\ UnknownKind(buf) = {} /\ OutOfBounds(buf) = {}
    /\ LocationCount(buf) = 2
    /\ DigestIndex(buf, 0) = U64FromNat(1)
    /\ DigestIndex(buf, 1) = U64FromNat(0)
    /\ DigestBytes(buf, 0) # DigestBytes(buf, 1)

-----------------------------------------------------------------------------
(* The regions at hand in a state: the Metadata and location entries derived
   from the Package, the Metadata that decodes from the buffer's 0x30 first
   bytes, the location entries that decode from the chunks of its location
   table, and the digest entries that decode from any of its 0x20-byte
   chunks. *)
RegionChunkCount(b) == IF Len(b) < 48 THEN 0 ELSE (Len(b) - 48) \div 32

(* The chunks of the buffer that the encoding wrote as location entries. *)
LocationChunkCount ==
    IF RegionChunkCount(buf) < Len(pup.segments) THEN RegionChunkCount(buf)
    ELSE Len(pup.segments)

RegionChunk(b, k) == Slice(b, 48 + 32 * k, 48 + 32 * k + 32)

(* The 8 bytes from the 0-based offset off hold v, most significant byte
   first. *)
IsBigEndian64(bytes, off, v) ==
    \A k \in 1..4 : bytes[off + 2 * k - 1] * 256 + bytes[off + 2 * k] = v[k]

MetadataLaw(m) ==
    LET bytes == Metadata_to_bytes(m)
    IN  /\ Len(bytes) = 48
        /\ Slice(bytes, 0, 8) = SCEUF
        /\ Slice(bytes, 8, 16) = <<0, 0, 0, 0, 0, 0, 0, 1>>
        /\ IsBigEndian64(bytes, 16, m.img_version)
        /\ IsBigEndian64(bytes, 24, m.seg_count)
        /\ IsBigEndian64(bytes, 32, m.header_size)
        /\ IsBigEndian64(bytes, 40, m.data_size)
        /\ Metadata_try_from(bytes) = Ok(m)

LocationEntryLaw(e) ==
    LET bytes == seg_Entry_to_bytes(e)
    IN  /\ Len(bytes) = 32
        /\ IsBigEndian64(bytes, 0, e.id)
        /\ IsBigEndian64(bytes, 8, e.offset)
        /\ IsBigEndian64(bytes, 16, e.size)
        /\ Slice(bytes, 24, 28) = (IF e.sig_kind = "HmacSha1" THEN <<0, 0, 0, 0>>
                                                              ELSE <<0, 0, 0, 2>>)
        /\ Slice(bytes, 28, 32) = <<0, 0, 0, 0>>
        /\ seg_Entry_try_from(bytes) = Ok(e)

DigestEntryLaw(d) ==
    LET bytes == digest_Entry_to_bytes(d)
    IN  /\ Len(bytes) = 32
        /\ IsBigEndian64(bytes, 0, d.seg_index)
        /\ Slice(bytes, 8, 28) = d.digest
        /\ Slice(bytes, 28, 32) = <<0, 0, 0, 0>>
        /\ digest_Entry_try_from(bytes) = Ok(d)

(* C13: the FixedRegion law of Metadata, location Entry and digest Entry.
   encode gives exactly SIZE bytes (0x30, 0x20, 0x20), with big-endian
   integer fields and zero reserved bytes, and decode(encode(x)) = x; every
   signature kind maps to a u32 code that decodes back to it.  The law is
   taken of the regions of every Package and of every buffer on its way to
   the decode. *)
C13_FixedRegionLaw ==
    res = NoResult =>
        /\ MetadataLaw(Metadata_from_pup(pup))
        /\ MetadataValid(buf) => MetadataLaw(Metadata_try_from(Take(buf, 48)).val)
        /\ \A i \in 1..Len(pup.segments) : LocationEntryLaw(seg_Table_from_pup(pup)[i])
        /\ \A k \in 0..(LocationChunkCount - 1) :
             LET e == seg_Entry_try_from(RegionChunk(buf, k))
             IN  IsOk(e) => LocationEntryLaw(e.val)
        /\ \A k \in 0..(RegionChunkCount(buf) - 1) :
             DigestEntryLaw(digest_Entry_try_from(RegionChunk(buf, k)).val)

(* C13's case: a buffer on its way to the decode holds a Metadata with an
   image version, a location entry of kind HMAC-SHA256, a location entry with
   the greatest offset and a digest entry with a digest that is not zero. *)
C13_Witness ==
    /\ res = NoResult
    /\ MetadataValid(buf)
    /\ Metadata_try_from(Take(buf, 48)).val.img_version = <<0, 0, 43690, 48059>>
    /\ \E k \in 0..(LocationChunkCount - 1) :
         LET e == seg_Entry_try_from(RegionChunk(buf, k))
         IN  IsOk(e) /\ e.val.sig_kind = "HmacSha256"
    /\ \E k \in 0..(LocationChunkCount - 1) :
         LET e == seg_Entry_try_from(RegionChunk(buf, k))
         IN  IsOk(e) /\ e.val.offset = U64_MAX
    /\ \E k \in 0..(RegionChunkCount(buf) - 1) :
         digest_Entry_try_from(RegionChunk(buf, k)).val.digest # Zeros(20)

-----------------------------------------------------------------------------
(* C14: in the location table derived from a Package the offsets are
   contiguous in index order.  The first offset is the derived header size,
   each next offset is the previous offset plus the previous size, each size
   is the length of the segment's payload, id and signature kind are the
   segment's, and the last entry ends at header_size + data_size.  The encoded
   buffer stores these entries from 0x30. *)
C14_ContiguousOffsets ==
    fresh =>
        LET table == seg_Table_from_pup(pup)
            meta == Metadata_from_pup(pup)
            n == Len(pup.segments)
        IN  /\ Len(table) = n
            /\ n > 0 => table[1].offset = meta.header_size
            /\ \A i \in 1..n :
                 /\ table[i].size = U64FromNat(Len(pup.segments[i].data))
                 /\ table[i].id = pup.segments[i].id
                 /\ table[i].sig_kind = pup.segments[i].sig_kind
                 /\ seg_Entry_try_from(Slice(buf, 48 + 32 * (i - 1), 48 + 32 * i))
                      = Ok(table[i])
            /\ \A i \in 1..(n - 1) :
                 /\ ~usize_add(table[i].offset, table[i].size).overflow
                 /\ table[i + 1].offset = usize_add(table[i].offset, table[i].size).val
            /\ n > 0 => usize_add(table[n].offset, table[n].size).val
                          = usize_add(meta.header_size, meta.data_size).val

(* C14's case: a Package of two segments, the first with a payload, has been
   encoded. *)
C14_Witness ==
    /\ fresh
    /\ Len(pup.segments) = 2
    /\ Len(pup.segments[1].data) > 0
    /\ pup.segments[1].sig_kind # pup.segments[2].sig_kind

(* The digest table of the Header derived from the Package. *)
DerivedDigestTable == Header_from_pup(pup).digest_table

(* C15: in the Header derived from a Package the location table, the digest
   table, meta.seg_count and the segments have the same length, and digest
   entry i has seg_index i and the stored digest of segment i. *)
C15_DigestTableDerived ==
    fresh =>
        LET header == Header_from_pup(pup)
            n == Len(pup.segments)
        IN  /\ Len(header.seg_table) = n
            /\ Len(header.digest_table) = n
            /\ header.meta.seg_count = U64FromNat(n)
            /\ \A i \in 1..n :
                 /\ DerivedDigestTable[i].seg_index = U64FromNat(i - 1)
                 /\ DerivedDigestTable[i].digest = pup.segments[i].digest

-----------------------------------------------------------------------------
(* C16: Header encode outputs the metadata bytes, the location-table bytes,
   the digest-table bytes and the 20-byte header digest, followed only by
   zero bytes up to meta.header_size.  The content is never truncated: when
   it is longer than meta.header_size the encode aborts. *)
C16_HeaderEncodePadsOnly ==
    call.op = "Header_to_bytes" =>
        LET header == call.arg
            unpadded == Metadata_to_bytes(header.meta)
                          \o Table_to_bytes("seg", header.seg_table)
                          \o Table_to_bytes("digest", header.digest_table)
                          \o header.header_digest
            header_size == U64ToNat(header.meta.header_size)
        IN  IF Len(unpadded) > header_size
            THEN call.out = Panic
            ELSE call.out = Ok(unpadded \o Zeros(header_size - Len(unpadded)))

(* C17: Table decode of a slice whose length is not a multiple of the entry
   size fails with Undersized; of a slice whose length is a multiple it
   yields length/SIZE entries in slice order; and Table encode is the
   concatenation, in order, of the entries' encodings. *)
C17_TableDecodeStrict ==
    call.op = "Table_try_from" =>
        LET T == call.arg.T
            data == call.arg.data
            size == Entry_SIZE(T)
        IN  IF Len(data) % size # 0
            THEN call.out = Err(Undersized)
            ELSE /\ call.out.tag = "Ok"
                 /\ Len(call.out.val) = Len(data) \div size
                 /\ \A i \in 1..Len(call.out.val) :
                      /\ Entry_try_from(T, Slice(data, (i - 1) * size, i * size))
                           = Ok(call.out.val[i])
                      /\ Slice(Table_to_bytes(T, call.out.val), (i - 1) * size, i * size)
                           = Entry_to_bytes(T, call.out.val[i])
                 /\ Len(Table_to_bytes(T, call.out.val)) = Len(data)

(* The location entries whose offset + size does not fit a machine word. *)
OffsetOverflows(b) ==
    {i \in 0..(LocationCount(b) - 1) :
        usize_add(LocationField(b, i, 8), LocationField(b, i, 16)).overflow}

(* seg_count * 0x20 does not fit a machine word. *)
TableSizeOverflows(b) == usize_mul(StoredU64(b, 24), seg_Entry_SIZE).overflow

(* C18: decode is total under machine-word arithmetic.  It never aborts; a
   buffer whose seg_count * entry size overflows fails with Undersized; and a
   buffer with a location entry whose offset + size overflows fails with
   MissingData(i), never succeeds. *)
C18_DecodeTotal ==
    Decoded =>
        /\ res.tag # "Panic"
        /\ (MetadataValid(buf) /\ TableSizeOverflows(buf)) => res = Err(Undersized)
        /\ (WholeHeader(buf) /\ UnknownKind(buf) = {} /\ WithoutDigest(buf) = {}
              /\ OffsetOverflows(buf) # {})
             => res = Err(MissingData(U64FromNat(Least(OutOfBounds(buf)))))

-----------------------------------------------------------------------------
(* A command-line mutator has run. *)
CliDone == call.op \in {"seg insert", "seg remove", "insert"}

(* The decode the specification describes fails on a buffer: it is too short
   for its header or has a bad magic or package version (C5-C7), or one of
   its location entries has an unknown signature kind, no digest entry or
   data outside the buffer (C8-C10). *)
DecodeMustFail(b) ==
    \/ ~WholeHeader(b)
    \/ UnknownKind(b) # {}
    \/ WithoutDigest(b) # {}
    \/ OutOfBounds(b) # {}

(* The package file the command started from decodes. *)
CliDecodes ==
    /\ call.arg.file.exists
    /\ call.arg.file.readable
    /\ ~DecodeMustFail(call.arg.file.data)

(* The command's mutation succeeds on the decoded Package, which has one
   segment per location entry: remove needs a segment, insert needs the
   segment file. *)
CliMutates ==
    IF call.arg.f.op = "remove" THEN LocationCount(call.arg.file.data) # 0
    ELSE call.arg.f.seg_file.exists /\ call.arg.f.seg_file.readable

(* C19: read, then validate, then write.  A command-line mutator (insert,
   remove) writes the package file only after a successful decode and a
   successful mutation: when the decode fails or the mutation fails (remove
   on a Package with no segments, a segment file that cannot be read) the
   command reports the failure and the file is as it was. *)
C19_ReadValidateWrite ==
    CliDone =>
        (~(CliDecodes /\ CliMutates)
            => (~IsOk(call.out) /\ buf = call.arg.file.data))

=============================================================================
